---- MODULE Spec2Model ----
(***************************************************************************)
(* The chat server of server.py: one listener thread (start_server) that   *)
(* accepts sockets and appends them to the global list `clients`, and one  *)
(* handler thread per accepted socket (handle_client) that alternates      *)
(* recv and broadcast and removes its socket on the way out.  All access   *)
(* to `clients` is inside `with lock:`.                                    *)
(*                                                                         *)
(* A socket is named by the order in which accept returned it: 1, 2, ...   *)
(* The handler thread of socket c is named c as well.                      *)
(***************************************************************************)
EXTENDS Integers, Sequences, FiniteSets, TLC

\* Bounds of the model.
MaxConns == 3      \* sockets the listener accepts
MaxReads == 2      \* messages read by all handlers together
MaxEnds == 1       \* handlers whose recv returns end-of-stream or raises
MaxFails == 2      \* send calls that raise

Conns == 1..MaxConns

VARIABLES
    clients,      \* server.py:17  the list of registered sockets, in list order
    locked,       \* server.py:18  threading.Lock: TRUE while acquired
    lpc,          \* start_server: the listener's position
    naccepted,    \* start_server: sockets returned by accept so far; the last is client_socket
    pc,           \* handle_client: each handler's position
    idx,          \* broadcast: the list iterator's index of `for client in clients`
    cur,          \* broadcast: the loop variable `client`
    message,      \* handle_client: the local `message` (its read number)
    nread,        \* messages each handler has read
    closed,       \* the socket has been closed by `with client_socket` exiting
    log,          \* per open socket: the send calls made on it, in order, as <<sender, message>>
    bcStart,      \* history: `clients` when the running broadcast call got the lock
    att,          \* history: send calls of the running broadcast, per recipient
    failed,       \* history: recipients whose send raised in the running broadcast
    remAtStart,   \* history: sockets already deleted when the running broadcast started
    removedBy,    \* history: what deleted the socket from `clients` (none, send, teardown)
    valueErrors   \* history: threads in which list.remove raised ValueError

vars == <<clients, locked, lpc, naccepted, pc, idx, cur, message, nread,
          closed, log, bcStart, att, failed, remAtStart, removedBy, valueErrors>>

hist == <<bcStart, att, failed, remAtStart>>

----------------------------------------------------------------------------
\* Python list operations on `clients`.

Range(s) == {s[i] : i \in 1..Len(s)}

\* Variant: the membership test of line 55 left out.
InClientsUnchecked(s, x) == TRUE

\* Variant: the membership test of line 55 never finds the socket.
InClientsNever(s, x) == FALSE

\* x in list
InClients(s, x) == x \in Range(s)

\* Variant: remove raises whatever the list holds.
RemoveRaisesAlways(s, x) == TRUE

\* list.remove(x) raises ValueError when x is absent
RemoveRaises(s, x) == x \notin Range(s)

FirstIndex(s, x) == CHOOSE i \in 1..Len(s) : s[i] = x /\ \A j \in 1..(i - 1) : s[j] # x

\* Variant: the list is left as it was.
RemoveNothing(s, x) == s

\* Variant: the last item is deleted (list.pop()) instead of x.
RemoveLast(s, x) == SubSeq(s, 1, Len(s) - 1)

\* list.remove(x): delete the first occurrence of x, the later items move down by one
Remove(s, x) ==
    LET k == FirstIndex(s, x)
    IN  [i \in 1..(Len(s) - 1) |-> IF i < k THEN s[i] ELSE s[i + 1]]

\* Variant: acquire does not wait.
LockFreeAlways == TRUE

\* lock.acquire() returns only when the lock is not held
LockFree == ~locked

\* Variant: the bytes go in front of those of earlier calls.
DeliverInFront(stream, sender, m) == <<(<<sender, m>>)>> \o stream

\* socket.send(message): the bytes go on the recipient's stream after those of earlier calls
Deliver(stream, sender, m) == Append(stream, <<sender, m>>)

\* Variant: the test of line 30 left out.
IsRecipientAny(client, sender_socket) == TRUE

\* broadcast line 30: the sender's own socket is passed over
IsRecipient(client, sender_socket) == client # sender_socket

\* lines 29-30: from iterator index i, the index of the next item of the list the
\* loop body sends to (0: the iterator is exhausted and the loop ends)
RECURSIVE NextRecipient(_, _, _)
NextRecipient(list, i, sender_socket) ==
    IF i > Len(list) THEN 0
    ELSE IF IsRecipient(list[i], sender_socket) THEN i
    ELSE NextRecipient(list, i + 1, sender_socket)

RECURSIVE SumTo(_, _)
SumTo(f, n) == IF n = 0 THEN 0 ELSE f[n] + SumTo(f, n - 1)

TotalReads == SumTo(nread, MaxConns)

NoHist(h) ==
    /\ bcStart' = [bcStart EXCEPT ![h] = <<>>]
    /\ att' = [att EXCEPT ![h] = [c \in Conns |-> 0]]
    /\ failed' = [failed EXCEPT ![h] = {}]
    /\ remAtStart' = [remAtStart EXCEPT ![h] = {}]

Removed == {c \in Conns : removedBy[c] # "none"}

TotalEnds == Cardinality({h \in Conns : pc[h] \in {"td_lock", "td_cs", "td_close", "closed"}})

TotalFails == Cardinality({c \in Conns : removedBy[c] = "send"})

----------------------------------------------------------------------------
Init ==
    /\ clients = <<>>
    /\ locked = FALSE
    /\ lpc = "accept"
    /\ naccepted = 0
    /\ pc = [h \in Conns |-> "unborn"]
    /\ idx = [h \in Conns |-> 0]
    /\ cur = [h \in Conns |-> 0]
    /\ message = [h \in Conns |-> 0]
    /\ nread = [h \in Conns |-> 0]
    /\ closed = [h \in Conns |-> FALSE]
    /\ log = [c \in Conns |-> <<>>]
    /\ bcStart = [h \in Conns |-> <<>>]
    /\ att = [h \in Conns |-> [c \in Conns |-> 0]]
    /\ failed = [h \in Conns |-> {}]
    /\ remAtStart = [h \in Conns |-> {}]
    /\ removedBy = [c \in Conns |-> "none"]
    /\ valueErrors = {}

----------------------------------------------------------------------------
\* start_server, lines 69-79.

\* line 71: server.accept() returns a new socket
Accept ==
    /\ lpc = "accept"
    /\ naccepted < MaxConns
    /\ naccepted' = naccepted + 1
    /\ lpc' = "lock"
    /\ UNCHANGED <<clients, locked, pc, idx, cur, message, nread, closed, log,
                   hist, removedBy, valueErrors>>

\* line 72: with lock (enter)
ListenerAcquire ==
    /\ lpc = "lock"
    /\ LockFree
    /\ locked' = TRUE
    /\ lpc' = "append"
    /\ UNCHANGED <<clients, naccepted, pc, idx, cur, message, nread, closed, log,
                   hist, removedBy, valueErrors>>

\* lines 73: clients.append(client_socket), and the with block's exit
ListenerAppend ==
    /\ lpc = "append"
    /\ clients' = Append(clients, naccepted)
    /\ locked' = FALSE
    /\ lpc' = "start"
    /\ UNCHANGED <<naccepted, pc, idx, cur, message, nread, closed, log,
                   hist, removedBy, valueErrors>>

\* lines 74-75: the handler thread of the accepted socket starts
ListenerStart ==
    /\ lpc = "start"
    /\ pc' = [pc EXCEPT ![naccepted] = "recv"]
    /\ lpc' = "accept"
    /\ UNCHANGED <<clients, locked, naccepted, idx, cur, message, nread, closed, log,
                   hist, removedBy, valueErrors>>

\* Variant: an interrupt inside the with block leaves the lock held.
ListenerStopKeepsLock ==
    /\ lpc # "stopped"
    /\ lpc' = "stopped"
    /\ UNCHANGED <<clients, locked, naccepted, pc, idx, cur, message, nread, closed, log,
                   hist, removedBy, valueErrors>>

\* lines 76-79: KeyboardInterrupt anywhere in the try block, or accept raising,
\* ends the loop; a with block that is left releases the lock.
ListenerStop ==
    /\ lpc # "stopped"
    /\ lpc' = "stopped"
    /\ locked' = IF lpc = "append" THEN FALSE ELSE locked
    /\ UNCHANGED <<clients, naccepted, pc, idx, cur, message, nread, closed, log,
                   hist, removedBy, valueErrors>>

----------------------------------------------------------------------------
\* handle_client, lines 44-57.

\* line 48: recv returns a non-empty message
RecvMsg(h) ==
    /\ pc[h] = "recv"
    /\ TotalReads < MaxReads
    /\ nread' = [nread EXCEPT ![h] = @ + 1]
    /\ message' = [message EXCEPT ![h] = nread[h] + 1]
    /\ pc' = [pc EXCEPT ![h] = "bc_lock"]
    /\ UNCHANGED <<clients, locked, lpc, naccepted, idx, cur, closed, log,
                   hist, removedBy, valueErrors>>

\* lines 49-50: recv returns b'' (end of stream): break
RecvEof(h) ==
    /\ pc[h] = "recv"
    /\ TotalEnds < MaxEnds
    /\ pc' = [pc EXCEPT ![h] = "td_lock"]
    /\ UNCHANGED <<clients, locked, lpc, naccepted, idx, cur, message, nread, closed, log,
                   hist, removedBy, valueErrors>>

\* Variant: a recv that raises leaves the handler without the removal of lines 54-56.
RecvErrorSkipsRemoval(h) ==
    /\ pc[h] = "recv"
    /\ TotalEnds < MaxEnds
    /\ pc' = [pc EXCEPT ![h] = "td_close"]
    /\ UNCHANGED <<clients, locked, lpc, naccepted, idx, cur, message, nread, closed, log,
                   hist, removedBy, valueErrors>>

\* lines 52-53: recv raises: except: break
RecvError(h) ==
    /\ pc[h] = "recv"
    /\ TotalEnds < MaxEnds
    /\ pc' = [pc EXCEPT ![h] = "td_lock"]
    /\ UNCHANGED <<clients, locked, lpc, naccepted, idx, cur, message, nread, closed, log,
                   hist, removedBy, valueErrors>>

\* line 54: with lock (enter)
TeardownAcquire(h) ==
    /\ pc[h] = "td_lock"
    /\ LockFree
    /\ locked' = TRUE
    /\ pc' = [pc EXCEPT ![h] = "td_cs"]
    /\ UNCHANGED <<clients, lpc, naccepted, idx, cur, message, nread, closed, log,
                   hist, removedBy, valueErrors>>

\* lines 55-56 and the with block's exit: remove the own socket if it is listed
TeardownRemove(h) ==
    /\ pc[h] = "td_cs"
    /\ IF InClients(clients, h)
       THEN IF RemoveRaises(clients, h)
            THEN /\ valueErrors' = valueErrors \cup {h}
                 /\ UNCHANGED <<clients, removedBy>>
            ELSE /\ clients' = Remove(clients, h)
                 /\ removedBy' = [removedBy EXCEPT ![h] = "teardown"]
                 /\ UNCHANGED valueErrors
       ELSE UNCHANGED <<clients, removedBy, valueErrors>>
    /\ locked' = FALSE
    /\ pc' = [pc EXCEPT ![h] = "td_close"]
    /\ UNCHANGED <<lpc, naccepted, idx, cur, message, nread, closed, log, hist>>

\* Variant: the handler returns and its socket stays open.
TeardownLeavesOpen(h) ==
    /\ pc[h] = "td_close"
    /\ pc' = [pc EXCEPT ![h] = "closed"]
    /\ UNCHANGED <<clients, locked, lpc, naccepted, idx, cur, message, nread, closed, log,
                   hist, removedBy, valueErrors>>

\* line 57 and the exit of `with client_socket`: the socket is closed, and its
\* stream is gone with it
TeardownClose(h) ==
    /\ pc[h] = "td_close"
    /\ closed' = [closed EXCEPT ![h] = TRUE]
    /\ pc' = [pc EXCEPT ![h] = "closed"]
    /\ log' = [log EXCEPT ![h] = <<>>]
    /\ UNCHANGED <<clients, locked, lpc, naccepted, idx, cur, message, nread,
                   hist, removedBy, valueErrors>>

----------------------------------------------------------------------------
\* broadcast, lines 28-34, called from handle_client line 51.  The lock is held
\* from line 28 to the end of the loop, so the steps of the loop that touch no
\* socket are taken together with the step before them.

\* lines 29-32: the iterator, at index i of the list as it is now, runs to the
\* next recipient and calls its send, or ends the loop
Advance(h, list, i) ==
    LET k == NextRecipient(list, i, h)
    IN  IF k = 0
        THEN /\ pc' = [pc EXCEPT ![h] = "bc_exit"]
             /\ idx' = [idx EXCEPT ![h] = 0]
             /\ cur' = [cur EXCEPT ![h] = 0]
             /\ UNCHANGED log
             /\ att' = [att EXCEPT ![h] = IF pc[h] = "bc_lock" THEN [c \in Conns |-> 0] ELSE @]
        ELSE /\ pc' = [pc EXCEPT ![h] = "bc_send"]
             /\ idx' = [idx EXCEPT ![h] = k + 1]
             /\ cur' = [cur EXCEPT ![h] = list[k]]
             /\ log' = [log EXCEPT ![list[k]] = Deliver(@, h, message[h])]
             /\ att' = [att EXCEPT ![h] =
                          [c \in Conns |->
                              (IF pc[h] = "bc_lock" THEN 0 ELSE @[c])
                              + (IF c = list[k] THEN 1 ELSE 0)]]

\* line 28: with lock (enter); line 29: the for statement makes its list iterator
BroadcastAcquire(h) ==
    /\ pc[h] = "bc_lock"
    /\ LockFree
    /\ locked' = TRUE
    /\ bcStart' = [bcStart EXCEPT ![h] = clients]
    /\ failed' = [failed EXCEPT ![h] = {}]
    /\ remAtStart' = [remAtStart EXCEPT ![h] = Removed]
    /\ Advance(h, clients, 1)
    /\ UNCHANGED <<clients, lpc, naccepted, message, nread, closed,
                   removedBy, valueErrors>>

\* line 32: client.send(message) returns
SendOk(h) ==
    /\ pc[h] = "bc_send"
    /\ ~closed[cur[h]]
    /\ Advance(h, clients, idx[h])
    /\ UNCHANGED <<clients, locked, lpc, naccepted, message, nread, closed,
                   bcStart, failed, remAtStart, removedBy, valueErrors>>

\* lines 33-34: client.send(message) raises; clients.remove(client).  A ValueError
\* of remove leaves broadcast (the lock is released) for handle_client's except.
SendFail(h) ==
    /\ pc[h] = "bc_send"
    /\ TotalFails < MaxFails \/ closed[cur[h]]
    /\ IF RemoveRaises(clients, cur[h])
       THEN /\ valueErrors' = valueErrors \cup {h}
            /\ locked' = FALSE
            /\ pc' = [pc EXCEPT ![h] = "td_lock"]
            /\ idx' = [idx EXCEPT ![h] = 0]
            /\ cur' = [cur EXCEPT ![h] = 0]
            /\ NoHist(h)
            /\ UNCHANGED <<clients, removedBy, log>>
       ELSE /\ clients' = Remove(clients, cur[h])
            /\ removedBy' = [removedBy EXCEPT ![cur[h]] = "send"]
            /\ failed' = [failed EXCEPT ![h] = @ \cup {cur[h]}]
            /\ Advance(h, clients', idx[h])
            /\ UNCHANGED <<locked, bcStart, remAtStart, valueErrors>>
    /\ UNCHANGED <<lpc, naccepted, message, nread, closed>>

\* Variant: broadcast returns with the lock still held.
BroadcastExitKeepsLock(h) ==
    /\ pc[h] = "bc_exit"
    /\ pc' = [pc EXCEPT ![h] = "recv"]
    /\ NoHist(h)
    /\ UNCHANGED <<clients, locked, lpc, naccepted, idx, cur, message, nread, closed, log,
                   removedBy, valueErrors>>

\* the with block's exit (line 34 is its last line); broadcast returns to line 46
BroadcastExit(h) ==
    /\ pc[h] = "bc_exit"
    /\ locked' = FALSE
    /\ pc' = [pc EXCEPT ![h] = "recv"]
    /\ NoHist(h)
    /\ UNCHANGED <<clients, lpc, naccepted, idx, cur, message, nread, closed, log,
                   removedBy, valueErrors>>

----------------------------------------------------------------------------
Listener == Accept \/ ListenerAcquire \/ ListenerAppend \/ ListenerStart \/ ListenerStop

Handler(h) ==
    \/ RecvMsg(h) \/ RecvEof(h) \/ RecvError(h)
    \/ BroadcastAcquire(h) \/ SendOk(h) \/ SendFail(h) \/ BroadcastExit(h)
    \/ TeardownAcquire(h) \/ TeardownRemove(h) \/ TeardownClose(h)

Next == Listener \/ \E h \in Conns : Handler(h)

Spec == Init /\ [][Next]_vars

\* The code's scheduling: a thread that can take its next step takes it, a lock
\* that stays free is granted, and a send that was called returns.  Nothing is
\* assumed of accept and recv, which block for as long as the peer likes.
FairSpec ==
    /\ Spec
    /\ WF_vars(ListenerAcquire) /\ WF_vars(ListenerAppend) /\ WF_vars(ListenerStart)
    /\ \A h \in Conns :
          /\ WF_vars(BroadcastAcquire(h))
          /\ WF_vars(SendOk(h) \/ SendFail(h))
          /\ WF_vars(BroadcastExit(h))
          /\ WF_vars(TeardownAcquire(h))
          /\ WF_vars(TeardownRemove(h))
          /\ WF_vars(TeardownClose(h))

----------------------------------------------------------------------------
\* Where a thread is inside a `with lock:` block (lines 28-34, 54-56, 72-73).
HandlerHoldsLock(h) == pc[h] \in {"bc_send", "bc_exit", "td_cs"}

ListenerHoldsLock == lpc = "append"

InSend(h) == pc[h] = "bc_send"

BroadcastDone(h) == pc[h] = "bc_exit"

Members == Range(clients)

----------------------------------------------------------------------------
\* C1: when a broadcast call has finished its loop, every socket that was in the
\* list when the call started, other than the sender, has had exactly one send
\* call of the message in this call.
C1_FanOutComplete ==
    \A h \in Conns :
        BroadcastDone(h) => \A c \in Range(bcStart[h]) \ {h} : att[h][c] = 1

\* C2: no send of a broadcast is ever called on the sender's own socket: no
\* entry of a socket's stream names that socket as its sender, and a running
\* broadcast has made no send call on its sender.
C2_Exclusion ==
    /\ \A c \in Conns : \A i \in 1..Len(log[c]) : log[c][i][1] # c
    /\ \A h \in Conns : att[h][h] = 0 /\ (InSend(h) => cur[h] # h)

C2_Witness ==
    \E h \in Conns :
        /\ BroadcastDone(h)
        /\ h \in Range(bcStart[h])
        /\ bcStart[h][1] # h
        /\ failed[h] # {}
        /\ \E c \in Conns : att[h][c] = 1 /\ c \notin failed[h]

\* C3: no thread is inside client.send while it holds the lock of the list.
C3_NoLockAcrossSend ==
    \A h \in Conns : InSend(h) => ~(HandlerHoldsLock(h) /\ locked)

\* C4: while a send of some broadcast has not returned, a listener that has
\* accepted a socket can take the lock to append it, a handler that left its
\* read loop can take the lock to remove its socket, and another handler's
\* broadcast can take the lock to start.
C4_StallFree ==
    (\E h \in Conns : InSend(h)) =>
        /\ lpc = "lock" => ENABLED ListenerAcquire
        /\ \A g \in Conns : pc[g] = "td_lock" => ENABLED TeardownAcquire(g)
        /\ \A g \in Conns : pc[g] = "bc_lock" => ENABLED BroadcastAcquire(g)

\* C5: with every send returning, every thread that waits for the lock gets it,
\* every broadcast that was called returns to the read loop and every teardown
\* ends with the socket closed.
C5_NoDeadlock ==
    /\ (lpc = "lock") ~> (lpc \in {"append", "stopped"})
    /\ \A h \in Conns :
          /\ (pc[h] = "bc_lock") ~> (pc[h] = "bc_send" \/ pc[h] = "bc_exit")
          /\ (pc[h] \in {"bc_lock", "bc_send", "bc_exit"}) ~> (pc[h] = "recv")
          /\ (pc[h] = "td_lock") ~> (pc[h] = "td_cs")
          /\ (pc[h] \in {"td_lock", "td_cs", "td_close"}) ~> (pc[h] = "closed")

C5_Witness ==
    /\ lpc = "lock"
    /\ \E h, g \in Conns : InSend(h) /\ pc[g] = "td_lock"

\* C6: list.remove never raises, and a removal step, of the failed-send cleanup
\* or of the teardown, leaves the list as it was without the targeted socket:
\* the teardown of a socket that a failed send already removed changes nothing.
C6_IdempotentRemoval ==
    [][ \A h \in Conns :
          /\ valueErrors' = {}
          /\ (pc[h] = "td_cs" /\ pc'[h] # "td_cs") =>
                LET Other(x) == x # h IN clients' = SelectSeq(clients, Other)
          /\ (InSend(h) /\ clients' # clients) =>
                LET Other(x) == x # cur[h] IN clients' = SelectSeq(clients, Other)
      ]_vars

C6_Witness ==
    \E h \in Conns :
        /\ removedBy[h] = "send"
        /\ pc[h] \in {"td_close", "closed"}
        /\ Members # {}

\* C7: on every socket's stream, the messages of one sender appear in the order
\* in which that sender's handler read them.
C7_PerSenderOrder ==
    \A c \in Conns : \A i, j \in 1..Len(log[c]) :
        (i < j /\ log[c][i][1] = log[c][j][1]) => log[c][i][2] < log[c][j][2]

C7_Witness ==
    \E c \in Conns : \E i, j \in 1..Len(log[c]) :
        i < j /\ log[c][i][1] = log[c][j][1] /\ removedBy[c] = "none"

\* C8: a broadcast makes no send call on a socket that had been removed from
\* the list before the broadcast started.
C8_NoSendAfterRemoval ==
    \A h \in Conns :
        /\ InSend(h) => cur[h] \notin remAtStart[h]
        /\ \A c \in remAtStart[h] : att[h][c] = 0

C8_Witness ==
    \E h, r \in Conns :
        /\ BroadcastDone(h)
        /\ r \in remAtStart[h]
        /\ removedBy[r] = "send"
        /\ \E c \in Conns : att[h][c] = 1

\* C9: when a broadcast has finished its loop, every recipient whose send
\* raised in it is out of the list, and every other socket, the sender
\* included, is in the list exactly if it was when the call started.
C9_WriteFailure ==
    \A h \in Conns :
        BroadcastDone(h) =>
            /\ \A r \in failed[h] : r \notin Members
            /\ \A c \in Conns \ failed[h] : (c \in Members) = (c \in Range(bcStart[h]))

C9_Witness ==
    \E h \in Conns :
        /\ BroadcastDone(h)
        /\ failed[h] # {}
        /\ h \in Members
        /\ \E c \in Members : c # h

\* C10: at most one thread is inside a `with lock:` block, and the lock is held
\* while one is: every use of the list is made by the one thread holding the lock.
C10_MutualExclusion ==
    LET inside == {h \in Conns : HandlerHoldsLock(h)}
        n == Cardinality(inside) + (IF ListenerHoldsLock THEN 1 ELSE 0)
    IN  /\ n <= 1
        /\ n = 1 => locked

C10_Witness ==
    /\ ListenerHoldsLock
    /\ \E h, g \in Conns : pc[h] = "bc_lock" /\ pc[g] = "td_lock"

----------------------------------------------------------------------------
\* Where a handler is in handle_client: in the call of broadcast (line 51), or
\* past the read loop (lines 54-57).
InBroadcast(h) == pc[h] \in {"bc_lock", "bc_send", "bc_exit"}

InTeardown(h) == pc[h] \in {"td_lock", "td_cs", "td_close"}

\* C11: a handler that has called broadcast stays in the call or goes back to
\* recv, and its own socket is not closed by it: no outcome of the sends takes
\* the handler out of its read loop.
C11_DeliverReturnsToRead ==
    [][ \A h \in Conns :
          InBroadcast(h) =>
              /\ InBroadcast(h)' \/ pc'[h] = "recv"
              /\ closed'[h] = closed[h]
      ]_vars

C11_Witness ==
    \E h, c \in Conns :
        /\ pc[h] = "recv"
        /\ nread[h] = 1
        /\ TotalReads = 1
        /\ removedBy[c] = "send"

\* C12: a recv that ends the read loop, by end of stream or by raising, takes
\* the handler to the same teardown and changes nothing else; a teardown step
\* takes at most the handler's own socket out of the list and leaves every
\* other handler as it was.
C12_TeardownLocal ==
    [][ \A h \in Conns :
          /\ (pc[h] = "recv" /\ pc'[h] \notin {"recv", "bc_lock"}) =>
                /\ pc'[h] = "td_lock"
                /\ clients' = clients
                /\ closed' = closed
          /\ (InTeardown(h) /\ pc'[h] # pc[h]) =>
                /\ Range(clients) \ {h} \subseteq Range(clients')
                /\ Range(clients') \subseteq Range(clients)
                /\ pc'[h] = "td_close" => h \notin Range(clients')
                /\ \A g \in Conns \ {h} :
                      pc'[g] = pc[g] /\ closed'[g] = closed[g] /\ nread'[g] = nread[g]
      ]_vars

C12_Witness ==
    \E h, g \in Conns :
        /\ removedBy[h] = "teardown"
        /\ pc[h] = "closed"
        /\ g \in Members
        /\ InSend(g)

----------------------------------------------------------------------------
\* The socket has been appended to the list at some time.
Added(c) == c \in Members \/ removedBy[c] # "none"

\* accept has returned the socket and the listener is past lines 72-73 for it
\* (or has left its loop).
PastAppend(c) == c <= naccepted /\ ~(c = naccepted /\ lpc \in {"lock", "append"})

\* C13 as stated: every accepted socket has been added, the list holds no socket
\* twice, and a socket that was deleted is not in the list.
C13_AddedExactlyOnce ==
    /\ \A c \in Conns : PastAppend(c) => Added(c)
    /\ Len(clients) = Cardinality(Members)
    /\ Removed \cap Members = {}

\* C13, amended: a socket enters the list only by the listener's append of
\* lines 72-73, once, and not after it was deleted; it is there when its handler
\* runs; it is deleted at most once, by a failed send or by its teardown, and is
\* never in the list afterwards.  (A socket accepted right before the listener
\* is interrupted is never added.)
C13_Lifecycle ==
    [][ LET before == Members
            after  == Members'
        IN  /\ Len(clients') = Cardinality(after)
            /\ \A c \in after \ before :
                  lpc = "append" /\ c = naccepted /\ removedBy[c] = "none"
            /\ \A c \in before \ after :
                  removedBy[c] = "none" /\ removedBy'[c] \in {"send", "teardown"}
            /\ \A c \in Conns :
                  /\ removedBy[c] # "none" =>
                        removedBy'[c] = removedBy[c] /\ c \notin after
                  /\ pc'[c] # "unborn" => c \in after \/ removedBy'[c] # "none"
      ]_vars

C13_Witness ==
    \E c, d \in Conns :
        /\ removedBy[c] = "send"
        /\ pc[c] = "closed"
        /\ d \in Members
        /\ lpc = "stopped"
        /\ naccepted = MaxConns
        /\ ~Added(MaxConns)

\* C14: with the lock granted and every send returning, a handler that has
\* left its read loop ends with its socket closed and out of the list, and in
\* that end state the socket stays closed and out of the list; also for a socket
\* that a failed send had removed already.
C14_TeardownLiveness ==
    \A h \in Conns :
        /\ (pc[h] = "td_lock") ~> (pc[h] = "closed" /\ closed[h] /\ h \notin Members)
        /\ [](pc[h] = "closed" => closed[h] /\ h \notin Members)

C14_Witness ==
    \E h \in Conns :
        /\ removedBy[h] = "send"
        /\ pc[h] = "closed"
        /\ closed[h]
        /\ lpc # "stopped"

\* The handler runs and has not left its read loop.
Serving(h) == pc[h] = "recv" \/ InBroadcast(h)

\* C15: a serving handler whose socket no failed send has removed has its
\* socket in the list, and a broadcast of another sender makes a send call on
\* every socket that was in the list when it started.
C15_RegisterBeforeServe ==
    /\ \A h \in Conns : (Serving(h) /\ removedBy[h] = "none") => h \in Members
    /\ \A g \in Conns :
          BroadcastDone(g) => \A h \in Range(bcStart[g]) \ {g} : att[g][h] >= 1

\* C16: once the listener has left its loop it stays out and no socket enters
\* the list any more; the step that stops it changes neither the list nor any
\* handler nor any socket, and leaves the lock to the handlers.
C16_ListenerStop ==
    [][ /\ lpc = "stopped" =>
              /\ lpc' = "stopped"
              /\ naccepted' = naccepted
              /\ Members' \subseteq Members
        /\ (lpc # "stopped" /\ lpc' = "stopped") =>
              /\ clients' = clients
              /\ pc' = pc
              /\ closed' = closed
              /\ log' = log
              /\ locked' => \E h \in Conns : HandlerHoldsLock(h)'
      ]_vars

C16_Witness ==
    /\ lpc = "stopped"
    /\ naccepted = MaxConns
    /\ ~Added(MaxConns)
    /\ \E h, g \in Conns : InSend(h) /\ nread[h] = 2 /\ cur[h] = g /\ pc[g] = "recv"

C18_RemovedStillSends ==
    \A r \in Conns :
        removedBy[r] = "send" =>
            /\ Serving(r) => ~closed[r]
            /\ BroadcastDone(r) => \A c \in Range(bcStart[r]) : att[r][c] >= 1
            /\ \A g \in Conns : r \in remAtStart[g] => att[g][r] = 0

\* C19: no socket in the list has been closed by its handler, and no send is
\* called on a socket its handler has closed.
C19_MembersOpen ==
    /\ \A c \in Members : ~closed[c]
    /\ \A h \in Conns : InSend(h) => ~closed[cur[h]]

C19_Witness ==
    \E h, g \in Conns :
        /\ closed[h]
        /\ removedBy[h] = "teardown"
        /\ InSend(g)
        /\ h \in Range(bcStart[g]) \/ h \in remAtStart[g]

====
